---- MODULE Spec2Model ----
(***************************************************************************)
(* A model of flash-border-linux.py: parse_color, the border geometry of  *)
(* FlashBorderApp._draw_border, and the hold / fade life cycle driven by   *)
(* the two GLib timers (FlashBorderApp.do_activate, _start_fade,           *)
(* _fade_tick).                                                            *)
(*                                                                         *)
(* Three specifications share the variables:                               *)
(*   Spec       the application life cycle (one run of app.run),           *)
(*   SpecColor  parse_color applied to a bounded set of input strings,     *)
(*   SpecDraw   _draw_border applied to a bounded set of area sizes.       *)
(***************************************************************************)
EXTENDS Integers, Sequences, FiniteSets, TLC

VARIABLES
    pc,             \* where the run is: see each specification's Init
    \* ---- FlashBorderApp fields (life cycle)
    hold,           \* self.hold: [kind, ms]
    fade,           \* self.fade: [kind, ms]
    alpha,          \* self.alpha, a double
    alpha_step,     \* self.alpha_step, a double; NoAttr until _start_fade sets it
    windows,        \* self.windows
    \* ---- environment of the life cycle
    monitors,       \* display.get_monitors().get_n_items()
    holdTimer,      \* the GLib source of timeout_add(hold, _start_fade) is armed
    tickTimer,      \* the GLib source of timeout_add(16, _fade_tick) is armed
    needsDraw,      \* per window: "none", "present" (first map) or "queued" (queue_draw)
    quitCalled,     \* self.quit() was called
    raised,         \* an exception escaped a callback (printed by the binding)
    exitCode,       \* the process's exit status once pc = "exited"
    \* ---- history of the life cycle
    steps,          \* the local `steps` of _start_fade (0 before it is computed)
    ticks,          \* how many times _fade_tick has run
    startFadeRuns,  \* how many times _start_fade has run
    prevAlpha,      \* self.alpha before the last _fade_tick
    queueDraws,     \* per window: how many queue_draw() calls it received
    drawn,          \* per window: what _draw_border read since the last tick
    \* ---- parse_color
    name,           \* the argument, a sequence of characters
    result,         \* [raised, color] once parsed
    \* ---- _draw_border
    border_width,   \* self.border_width
    area,           \* [width, height] handed to the draw function
    painted         \* the cells filled by the four cr.fill() calls

vars == <<pc, hold, fade, alpha, alpha_step, windows, monitors, holdTimer,
          tickTimer, needsDraw, quitCalled, raised, exitCode, steps, ticks,
          startFadeRuns, prevAlpha, queueDraws, drawn, name, result,
          border_width, area, painted>>

lifeVars == <<hold, fade, alpha, alpha_step, windows, monitors, holdTimer,
              tickTimer, needsDraw, quitCalled, raised, exitCode, steps, ticks,
              startFadeRuns, prevAlpha, queueDraws, drawn>>
colorVars == <<name, result>>
drawVars == <<border_width, area, painted>>

(***************************************************************************)
(* Bounds of the model.                                                    *)
(***************************************************************************)
MaxMonitors == 2    \* displays: 1..MaxMonitors
MaxHoldMs == 1      \* --hold, in whole milliseconds: 0..MaxHoldMs
MaxFadeMs == 64     \* --fade, in whole milliseconds: -1..MaxFadeMs
MaxLen == 6         \* characters after the leading '#'s of a colour argument
MaxHashes == 1      \* leading '#' characters of a colour argument
MaxSide == 6        \* width and height of a drawing area: 0..MaxSide
MaxBorder == 3      \* --width: -1..MaxBorder

(***************************************************************************)
(* Program constants.                                                      *)
(***************************************************************************)
interval_ms == 16   \* _start_fade: interval_ms = 16
MantBits == 53      \* significant bits of a Python float (IEEE-754 binary64)
HexLen == 6         \* parse_color: len(hexstr) == 6

Max(a, b) == IF a >= b THEN a ELSE b
Min(a, b) == IF a <= b THEN a ELSE b

(***************************************************************************)
(* Python floats, for self.alpha and self.alpha_step.                      *)
(*                                                                         *)
(* Every value the fade computes is 1.0, fl(1.0 / steps) or a rounded      *)
(* difference of such values, so each is a multiple of the last mantissa   *)
(* bit of the smallest step, 2^-(52 + StepBits).  A float is modelled      *)
(* exactly as a sign and a binary fixed-point magnitude m of FloatLen      *)
(* bits, m[1] of weight 2^0 and m[i] of weight 2^-(i-1); every operation   *)
(* rounds its exact result to MantBits significant bits, ties to even, as  *)
(* IEEE-754 does.                                                          *)
(***************************************************************************)
RECURSIVE BitLen(_)
BitLen(n) == IF n <= 1 THEN 0 ELSE 1 + BitLen((n + 1) \div 2)

StepBits == BitLen(Max(1, MaxFadeMs \div interval_ms))
FloatLen == MantBits + StepBits

Bit(m, i) == IF i <= Len(m) THEN m[i] ELSE 0

IsZeroMag(m) == \A i \in 1..Len(m) : m[i] = 0

\* The position of the most significant set bit (0 when there is none).
LeadingOne(m) ==
    IF IsZeroMag(m) THEN 0
    ELSE CHOOSE i \in 1..Len(m) : m[i] = 1 /\ \A j \in 1..(i - 1) : m[j] = 0

\* m rounded to MantBits significant bits, round-half-to-even.
RoundNearestEven(m) ==
    LET p == LeadingOne(m)
        q == p + MantBits - 1      \* position of the last bit kept
    IN  IF p = 0 \/ q >= Len(m) THEN m
        ELSE LET half == m[q + 1] = 1
                 sticky == \E i \in (q + 2)..Len(m) : m[i] = 1
                 up == half /\ (sticky \/ m[q] = 1)
             IN  [i \in 1..Len(m) |->
                    IF i > q THEN 0
                    ELSE IF up /\ \A j \in (i + 1)..q : m[j] = 1
                         THEN 1 - m[i]
                         ELSE m[i]]

MagLess(x, y) ==
    \E i \in 1..Len(x) : x[i] < y[i] /\ \A j \in 1..(i - 1) : x[j] = y[j]

\* x - y for magnitudes x >= y: borrow[i] is the borrow out of position i,
\* taken from the least significant bit up.
SubBits(x, y) ==
    LET n == Len(x)
        borrow[i \in 1..(n + 1)] ==
            IF i = n + 1 THEN 0
            ELSE IF x[i] - y[i] - borrow[i + 1] < 0 THEN 1 ELSE 0
    IN  [i \in 1..n |-> (x[i] - y[i] - borrow[i + 1] + 2) % 2]

\* The quotient bits of magnitude m by the integer n > 0, by long division
\* from the most significant bit: rem[i] is the remainder after i bits.  One
\* guard bit and a sticky bit (the remainder is not zero) are appended.
DivBits(m, n) ==
    LET k == Len(m) + 1
        rem[i \in 0..k] ==
            IF i = 0 THEN 0 ELSE (2 * rem[i - 1] + Bit(m, i)) % n
    IN  [i \in 1..(k + 1) |->
            IF i = k + 1 THEN (IF rem[k] = 0 THEN 0 ELSE 1)
            ELSE (2 * rem[i - 1] + Bit(m, i)) \div n]

F_Zero == [neg |-> FALSE, m |-> [i \in 1..FloatLen |-> 0]]
F_One == [neg |-> FALSE, m |-> [i \in 1..FloatLen |-> IF i = 1 THEN 1 ELSE 0]]
\* The attribute does not exist yet.
NoAttr == [neg |-> FALSE, m |-> <<>>]

\* a - b, for a >= 0 and b >= 0 (alpha > 0 is what keeps _fade_tick running,
\* and alpha_step = alpha / steps is then positive).
FSub(a, b) ==
    IF MagLess(a.m, b.m)
    THEN [neg |-> TRUE,
          m |-> RoundNearestEven(SubBits(b.m, a.m))]
    ELSE [neg |-> FALSE,
          m |-> RoundNearestEven(SubBits(a.m, b.m))]

\* a / n for the integer n > 0 and a in [2^-StepBits.., 1.0] (a is 1.0 at the
\* one place the program divides).
FDiv(a, n) ==
    [neg |-> a.neg,
     m |-> SubSeq(RoundNearestEven(DivBits(a.m, n)), 1, Len(a.m))]

FLeqZero(a) == a.neg \/ IsZeroMag(a.m)      \* a <= 0
FGtZero(a) == ~FLeqZero(a)                  \* a > 0
FLtOne(a) == a.neg \/ a.m[1] = 0            \* a < 1.0
\* a <= b
FLeq(a, b) ==
    IF a.neg /\ ~b.neg THEN TRUE
    ELSE IF ~a.neg /\ b.neg THEN IsZeroMag(a.m) /\ IsZeroMag(b.m)
    ELSE IF a.neg THEN ~MagLess(a.m, b.m)
    ELSE ~MagLess(b.m, a.m)

(***************************************************************************)
(* Command-line numbers.  --hold and --fade are Python floats: a finite    *)
(* value is kept in whole milliseconds (for these float(s) * 1000 / 16     *)
(* truncates to ms \div 16), and float() also accepts "inf", "-inf" and    *)
(* "nan".  A negative --hold is left out: what timeout_add does with a     *)
(* negative interval is decided by the GLib binding, not by this source.   *)
(* At least one display is connected.                                      *)
(***************************************************************************)
Fin(ms) == [kind |-> "fin", ms |-> ms]
NonFin(k) == [kind |-> k, ms |-> 0]

HoldValues == {Fin(ms) : ms \in 0..MaxHoldMs} \cup {NonFin("inf"), NonFin("nan")}
FadeValues == {Fin(ms) : ms \in -1..MaxFadeMs}
              \cup {NonFin("inf"), NonFin("-inf"), NonFin("nan")}

\* int(x): truncation toward zero; raises on inf and nan.
IntRaises(x) == x.kind # "fin"
\* self.fade <= 0 (False for nan)
LeqZero(x) == (x.kind = "fin" /\ x.ms <= 0) \/ x.kind = "-inf"

\* int(self.fade * 1000 / interval_ms), for a finite positive fade
FadeQuotient(x) == x.ms \div interval_ms

\* round(a / b) as Python rounds: to the nearest integer, halves to even
RoundHalfEven(a, b) ==
    LET q == a \div b
        r == a % b
    IN  IF 2 * r > b THEN q + 1
        ELSE IF 2 * r = b THEN q + (q % 2)
        ELSE q

\* A step count that rounds where the code truncates.
StepCountRounded(x) == Max(1, RoundHalfEven(x.ms, interval_ms))

\* steps = max(1, int(self.fade * 1000 / interval_ms))
StepCount(x) == Max(1, FadeQuotient(x))

\* A fade test that lets a zero duration through: if self.fade < 0
SkipsFadeStrict(x) == (x.kind = "fin" /\ x.ms < 0) \/ x.kind = "-inf"

\* if self.fade <= 0: the fade is skipped
SkipsFade(x) == LeqZero(x)

(***************************************************************************)
(* The application life cycle.                                             *)
(***************************************************************************)
Edges == {"TOP", "BOTTOM", "LEFT", "RIGHT"}

\* _create_overlay(monitor): an undecorated layer-shell window on the OVERLAY
\* layer of `monitor`, anchored to all four edges, taking no keyboard input,
\* whose child is a drawing area painted by _draw_border.
CreateOverlay(monitor) ==
    [monitor |-> monitor, decorated |-> FALSE, layer |-> "OVERLAY",
     keyboard |-> "NONE", anchors |-> Edges, child |-> "area"]

Wins == 1..Len(windows)

NoDrawn == [w \in 1..monitors |-> <<>>]

\* FlashBorderApp.__init__, for each configuration and each number of displays.
Init ==
    /\ pc = "constructed"
    /\ hold \in HoldValues
    /\ fade \in FadeValues
    /\ alpha = F_One
    /\ alpha_step = NoAttr
    /\ windows = <<>>
    /\ monitors \in 1..MaxMonitors
    /\ holdTimer = FALSE
    /\ tickTimer = FALSE
    /\ needsDraw = [w \in 1..monitors |-> "none"]
    /\ quitCalled = FALSE
    /\ raised = FALSE
    /\ exitCode = -1
    /\ steps = 0
    /\ ticks = 0
    /\ startFadeRuns = 0
    /\ prevAlpha = F_One
    /\ queueDraws = [w \in 1..monitors |-> 0]
    /\ drawn = NoDrawn
    /\ name = <<>>
    /\ result = [raised |-> FALSE, color |-> <<>>]
    /\ border_width = 0
    /\ area = [width |-> 0, height |-> 0]
    /\ painted = {}

\* do_activate: one overlay per monitor, each presented; then the hold timer.
\* int(self.hold * 1000) raises on inf and nan, after the windows are shown:
\* the exception leaves the handler and no timer is armed.
Activate ==
    /\ pc = "constructed"
    /\ pc' = "running"
    /\ windows' = [i \in 1..monitors |-> CreateOverlay(i)]
    /\ needsDraw' = [w \in 1..monitors |-> "present"]
    /\ IF IntRaises(hold)
       THEN /\ raised' = TRUE
            /\ holdTimer' = FALSE
       ELSE /\ raised' = raised
            /\ holdTimer' = TRUE
    /\ UNCHANGED <<hold, fade, alpha, alpha_step, monitors, tickTimer,
                   quitCalled, exitCode, steps, ticks, startFadeRuns,
                   prevAlpha, queueDraws, drawn>>
    /\ UNCHANGED <<colorVars, drawVars>>

\* A callback that asks to be called again: return True
StartFadeReturnsTrue == TRUE

\* _start_fade's return value, which tells GLib whether to keep the source:
\* return False
StartFadeReturns == FALSE

\* _start_fade, the hold timer's callback.  It returns False on both paths (and
\* an exception counts as False), so the source is removed.
StartFade ==
    /\ pc = "running"
    /\ holdTimer
    /\ ~quitCalled
    /\ holdTimer' = StartFadeReturns
    /\ startFadeRuns' = startFadeRuns + 1
    /\ IF SkipsFade(fade)
       THEN /\ quitCalled' = TRUE
            /\ UNCHANGED <<steps, alpha_step, tickTimer, raised>>
       ELSE IF IntRaises(fade)
       THEN /\ raised' = TRUE
            /\ UNCHANGED <<steps, alpha_step, tickTimer, quitCalled>>
       ELSE /\ steps' = StepCount(fade)
            /\ alpha_step' = FDiv(alpha, StepCount(fade))
            /\ tickTimer' = TRUE
            /\ UNCHANGED <<quitCalled, raised>>
    /\ UNCHANGED <<pc, hold, fade, alpha, windows, monitors, needsDraw,
                   exitCode, ticks, prevAlpha, queueDraws, drawn>>
    /\ UNCHANGED <<colorVars, drawVars>>

\* What _fade_tick does to the windows when alpha is still positive:
\* child.queue_draw() on every window.
QueueDrawAll == [w \in Wins |-> "queued"]

\* A stop test that misses zero: if self.alpha < 0
FadeDoneStrict(a) == a.neg /\ ~IsZeroMag(a.m)

\* Whether _fade_tick stops: if self.alpha <= 0
FadeDone(a) == FLeqZero(a)

\* _fade_tick, the 16 ms timer's callback.
FadeTick ==
    /\ pc = "running"
    /\ tickTimer
    /\ ~quitCalled
    /\ ticks' = ticks + 1
    /\ prevAlpha' = alpha
    /\ alpha' = FSub(alpha, alpha_step)
    /\ drawn' = NoDrawn
    /\ IF FadeDone(alpha')
       THEN /\ quitCalled' = TRUE
            /\ tickTimer' = FALSE
            /\ UNCHANGED <<needsDraw, queueDraws>>
       ELSE /\ needsDraw' = QueueDrawAll
            /\ queueDraws' = [w \in Wins |-> queueDraws[w] + 1]
            /\ UNCHANGED <<quitCalled, tickTimer>>
    /\ UNCHANGED <<pc, hold, fade, alpha_step, windows, monitors, holdTimer,
                   raised, exitCode, steps, startFadeRuns>>
    /\ UNCHANGED <<colorVars, drawVars>>

\* Windows that keep an alpha of their own: only the first follows the fade.
DrawAlphaOwn(w) == IF w = 1 THEN alpha ELSE F_One

\* The alpha _draw_border paints window w with: a = self.alpha
DrawAlpha(w) == alpha

\* The frame clock paints window w: _draw_border reads the colour, the alpha and
\* the border width.  A paint may come any time after its request, also after
\* later ticks.  Once quit() was called app.run leaves its loop when the
\* callback returns, so nothing is painted after it.
Draw(w) ==
    /\ pc = "running"
    /\ ~quitCalled
    /\ needsDraw[w] # "none"
    /\ drawn' = [drawn EXCEPT ![w] = <<[a |-> DrawAlpha(w), cause |-> needsDraw[w]]>>]
    /\ needsDraw' = [needsDraw EXCEPT ![w] = "none"]
    /\ UNCHANGED <<pc, hold, fade, alpha, alpha_step, windows, monitors,
                   holdTimer, tickTimer, quitCalled, raised, exitCode, steps,
                   ticks, startFadeRuns, prevAlpha, queueDraws>>
    /\ UNCHANGED <<colorVars, drawVars>>

\* main: app.run([]) returns once quit() was called; main returns and the
\* process exits with status 0, its windows destroyed.
AppExit ==
    /\ pc = "running"
    /\ quitCalled
    /\ pc' = "exited"
    /\ exitCode' = 0
    /\ needsDraw' = [w \in Wins |-> "none"]
    /\ UNCHANGED <<hold, fade, alpha, alpha_step, windows, monitors, holdTimer,
                   tickTimer, quitCalled, raised, steps, ticks, startFadeRuns,
                   prevAlpha, queueDraws, drawn>>
    /\ UNCHANGED <<colorVars, drawVars>>

Next ==
    \/ Activate
    \/ StartFade
    \/ FadeTick
    \/ \E w \in Wins : Draw(w)
    \/ AppExit

Spec == Init /\ [][Next]_vars

\* HOLD until _start_fade has run, DONE once quit() was called, FADING between.
Phase ==
    IF quitCalled THEN "DONE"
    ELSE IF startFadeRuns = 0 THEN "HOLD" ELSE "FADING"

PhaseRank(p) == IF p = "HOLD" THEN 0 ELSE IF p = "FADING" THEN 1 ELSE 2

(***************************************************************************)
(* parse_color.  A string is a sequence of one-character strings; a colour  *)
(* component is the exact quotient num / den of the float the code returns *)
(* (tenths for the table's literals, x / 255.0 for a decoded channel).     *)
(***************************************************************************)
Tenths(r, g, b) ==
    <<[num |-> r, den |-> 10], [num |-> g, den |-> 10], [num |-> b, den |-> 10]>>

NamedTable ==
    << <<(<<"r", "e", "d">>), Tenths(10, 0, 0)>>,
       <<(<<"o", "r", "a", "n", "g", "e">>), Tenths(10, 6, 0)>>,
       <<(<<"y", "e", "l", "l", "o", "w">>), Tenths(10, 10, 0)>>,
       <<(<<"g", "r", "e", "e", "n">>), Tenths(0, 8, 0)>>,
       <<(<<"b", "l", "u", "e">>), Tenths(0, 4, 10)>>,
       <<(<<"p", "u", "r", "p", "l", "e">>), Tenths(6, 2, 8)>>,
       <<(<<"c", "y", "a", "n">>), Tenths(0, 8, 8)>>,
       <<(<<"w", "h", "i", "t", "e">>), Tenths(10, 10, 10)>>,
       <<(<<"p", "i", "n", "k">>), Tenths(10, 4, 7)>> >>

NAMED_COLORS ==
    [k \in {NamedTable[i][1] : i \in 1..Len(NamedTable)} |->
        NamedTable[CHOOSE i \in 1..Len(NamedTable) : NamedTable[i][1] = k][2]]

UpperCase == <<"A", "B", "C", "D", "E", "F", "G", "H", "I", "J", "K", "L", "M",
               "N", "O", "P", "Q", "R", "S", "T", "U", "V", "W", "X", "Y", "Z">>
LowerCase == <<"a", "b", "c", "d", "e", "f", "g", "h", "i", "j", "k", "l", "m",
               "n", "o", "p", "q", "r", "s", "t", "u", "v", "w", "x", "y", "z">>
HexDigits == <<"0", "1", "2", "3", "4", "5", "6", "7", "8", "9",
               "a", "b", "c", "d", "e", "f">>

IndexOf(seq, c) ==
    IF \E i \in 1..Len(seq) : seq[i] = c
    THEN CHOOSE i \in 1..Len(seq) : seq[i] = c
    ELSE 0

\* str.lower(), on ASCII
LowerChar(c) == IF IndexOf(UpperCase, c) > 0 THEN LowerCase[IndexOf(UpperCase, c)] ELSE c
Lower(str) == [i \in 1..Len(str) |-> LowerChar(str[i])]

\* str.lstrip("#"): every leading '#' goes
LStripHash(str) ==
    LET lead == {i \in 1..Len(str) : \A j \in 1..i : str[j] = "#"}
    IN  SubSeq(str, Cardinality(lead) + 1, Len(str))

IsHexDigit(c) == IndexOf(HexDigits, LowerChar(c)) > 0
DigitValue(c) == IndexOf(HexDigits, LowerChar(c)) - 1
IsSpace(c) == c = " "

\* int(str, 16) as CPython parses it: white space around the literal is
\* skipped, then an optional sign, an optional 0x / 0X prefix (one underscore
\* may follow it), then hex digits that single underscores may separate.
\* Anything else is a ValueError.
PyInt16(str) ==
    LET n == Len(str)
        body == {i \in 1..n : ~IsSpace(str[i])}
        first == IF body = {} THEN 1 ELSE CHOOSE i \in body : \A j \in body : i <= j
        last == IF body = {} THEN 0 ELSE CHOOSE i \in body : \A j \in body : j <= i
        t == SubSeq(str, first, last)
        signed == Len(t) >= 1 /\ t[1] \in {"+", "-"}
        u == IF signed THEN SubSeq(t, 2, Len(t)) ELSE t
        prefixed == Len(u) >= 2 /\ u[1] = "0" /\ u[2] \in {"x", "X"}
        v == IF prefixed THEN SubSeq(u, 3, Len(u)) ELSE u
        d == IF prefixed /\ Len(v) >= 1 /\ v[1] = "_" THEN SubSeq(v, 2, Len(v)) ELSE v
        wellFormed ==
            /\ Len(d) >= 1
            /\ IsHexDigit(d[1])
            /\ IsHexDigit(d[Len(d)])
            /\ \A i \in 1..Len(d) : IsHexDigit(d[i]) \/ d[i] = "_"
            /\ \A i \in 1..(Len(d) - 1) : ~(d[i] = "_" /\ d[i + 1] = "_")
        mag[i \in 0..Len(d)] ==
            IF i = 0 THEN 0
            ELSE IF d[i] = "_" THEN mag[i - 1]
            ELSE 16 * mag[i - 1] + DigitValue(d[i])
    IN  IF ~wellFormed THEN [err |-> "ValueError", val |-> 0]
        ELSE [err |-> "none",
              val |-> IF signed /\ t[1] = "-" THEN 0 - mag[Len(d)] ELSE mag[Len(d)]]

\* except ValueError:
Caught(err) == err = "ValueError"

\* A channel without its mask: val >> shift
ChannelUnmasked(val, shift) == val \div (2 ^ shift)

\* (val >> shift) & 0xFF, on Python's unbounded two's-complement integers
Channel(val, shift) == (val \div (2 ^ shift)) % 256

\* The triple of a decoded value: each channel / 255.0
HexTriple(val) ==
    <<[num |-> Channel(val, 16), den |-> 255],
      [num |-> Channel(val, 8), den |-> 255],
      [num |-> Channel(val, 0), den |-> 255]>>

Red == NAMED_COLORS[<<"r", "e", "d">>]

\* parse_color(name): [raised, color]
ParseColorOf(str) ==
    IF Lower(str) \in DOMAIN NAMED_COLORS
    THEN [raised |-> FALSE, color |-> NAMED_COLORS[Lower(str)]]
    ELSE LET hexstr == LStripHash(str)
         IN  IF Len(hexstr) = HexLen
             THEN LET r == PyInt16(hexstr)
                  IN  IF r.err = "none"
                      THEN [raised |-> FALSE, color |-> HexTriple(r.val)]
                      ELSE IF Caught(r.err)
                      THEN [raised |-> FALSE, color |-> Red]
                      ELSE [raised |-> TRUE, color |-> <<>>]
             ELSE [raised |-> FALSE, color |-> Red]

\* The arguments tried: every string of at most MaxHashes '#' followed by at
\* most MaxLen characters of Alphabet, and the strings of Examples.
Alphabet == {"0", "f", "x", "-"}
Hashes(k) == [i \in 1..k |-> "#"]
Examples ==
    {NamedTable[i][1] : i \in 1..Len(NamedTable)}
    \cup {<<"#">> \o NamedTable[i][1] : i \in 1..Len(NamedTable)}
    \cup { <<"R", "E", "D">>, <<"R", "e", "d">>, <<"O", "r", "a", "n", "g", "E">>,
           <<"B", "L", "U", "E">>, <<"P", "i", "n", "K">>,
           <<"#", "f", "f", "9", "9", "0", "0">>, <<"f", "f", "9", "9", "0", "0">>,
           <<"F", "F", "9", "9", "0", "0">>, <<"f", "f", "9", "9">>,
           <<"z", "z", "z", "z", "z", "z">>, <<"1", "2", "3", "a", "b", "c">>,
           <<" ", "f", "f", "0", "0", " ">>, <<"f", "f", "_", "0", "0", "f">>,
           <<"+", "0", "0", "0", "0", "f">>, <<"0", "X", "0", "0", "f", "f">>,
           <<"0", "x", "_", "0", "0", "f">>, <<"f", "_", "_", "0", "0", "f">>,
           <<"_", "f", "f", "0", "0", "f">>, <<"f", "f", "0", "0", "f", "_">>,
           <<"f", "f", " ", "0", "0", "f">>, <<"f", "f", "0", "0", "0", "0", "0">> }
Inputs ==
    {Hashes(k) \o b : k \in 0..MaxHashes,
                      b \in UNION {[1..n -> Alphabet] : n \in 0..MaxLen}}
    \cup Examples

LifeIdle ==
    /\ hold = Fin(0)
    /\ fade = Fin(0)
    /\ alpha = F_One
    /\ alpha_step = NoAttr
    /\ windows = <<>>
    /\ monitors = 1
    /\ holdTimer = FALSE
    /\ tickTimer = FALSE
    /\ needsDraw = <<"none">>
    /\ quitCalled = FALSE
    /\ raised = FALSE
    /\ exitCode = -1
    /\ steps = 0
    /\ ticks = 0
    /\ startFadeRuns = 0
    /\ prevAlpha = F_One
    /\ queueDraws = <<0>>
    /\ drawn = <<(<<>>)>>

InitColor ==
    /\ pc = "parse"
    /\ name \in Inputs
    /\ result = [raised |-> FALSE, color |-> <<>>]
    /\ border_width = 0
    /\ area = [width |-> 0, height |-> 0]
    /\ painted = {}
    /\ LifeIdle

\* main: color = parse_color(args.color)
ParseColor ==
    /\ pc = "parse"
    /\ pc' = "parsed"
    /\ result' = ParseColorOf(name)
    /\ UNCHANGED <<name, lifeVars, drawVars>>

NextColor == ParseColor

SpecColor == InitColor /\ [][NextColor]_vars

(***************************************************************************)
(* _draw_border.  The drawing area is a grid of unit cells, cell <<x, y>>   *)
(* spanning [x, x+1) x [y, y+1); a fill paints the cells of its rectangle  *)
(* that lie inside the area.                                               *)
(***************************************************************************)
\* cr.rectangle(x, y, w, h): the cells the path encloses (a negative width or
\* height runs the rectangle backwards from its corner).
Rectangle(x, y, w, h) ==
    {<<i, j>> : i \in Min(x, x + w)..(Max(x, x + w) - 1),
                j \in Min(y, y + h)..(Max(y, y + h) - 1)}

AreaCells(width, height) == (0..(width - 1)) \X (0..(height - 1))

\* A bottom strip placed one border too high: height - 2 * bw
BorderRectanglesShifted(width, height, bw) ==
    << Rectangle(0, 0, width, bw),
       Rectangle(0, height - 2 * bw, width, bw),
       Rectangle(0, bw, bw, height - 2 * bw),
       Rectangle(width - bw, bw, bw, height - 2 * bw) >>

\* The four rectangles of _draw_border, in the order it fills them.
BorderRectangles(width, height, bw) ==
    << Rectangle(0, 0, width, bw),
       Rectangle(0, height - bw, width, bw),
       Rectangle(0, bw, bw, height - 2 * bw),
       Rectangle(width - bw, bw, bw, height - 2 * bw) >>

\* What the four cr.fill() calls paint of the area.
Filled(width, height, bw) ==
    (UNION {BorderRectangles(width, height, bw)[k] : k \in 1..4})
        \cap AreaCells(width, height)

InitDraw ==
    /\ pc = "draw"
    /\ border_width \in -1..MaxBorder
    /\ area \in [width : 0..MaxSide, height : 0..MaxSide]
    /\ painted = {}
    /\ name = <<>>
    /\ result = [raised |-> FALSE, color |-> <<>>]
    /\ LifeIdle

\* _draw_border(area, cr, width, height)
DrawBorder ==
    /\ pc = "draw"
    /\ pc' = "drawn"
    /\ painted' = Filled(area.width, area.height, border_width)
    /\ UNCHANGED <<border_width, area, lifeVars, colorVars>>

NextDraw == DrawBorder

SpecDraw == InitDraw /\ [][NextDraw]_vars

(***************************************************************************)
(* The properties checked.                                                 *)
(***************************************************************************)
CeilDiv(a, b) == (a + b - 1) \div b

FadePositive == fade.kind = "fin" /\ fade.ms > 0
FadeNonPositive == (fade.kind = "fin" /\ fade.ms <= 0) \/ fade.kind = "-inf"

\* C1: for a fade duration > 0 the alpha never increases from one tick to the
\* next, and it is <= 0 once ceil(fade_seconds * 1000 / 16) ticks have run.
C1_FadeWithinCeilTicks ==
    FadePositive =>
        /\ FLeq(alpha, prevAlpha)
        /\ (ticks >= CeilDiv(fade.ms, interval_ms) => FLeqZero(alpha))

\* C2: with a fade duration <= 0 the hold callback quits at once: no tick is
\* scheduled or run, no repaint is requested, and alpha is still 1.0.
C2_FadeSkip ==
    FadeNonPositive =>
        /\ ticks = 0
        /\ ~tickTimer
        /\ steps = 0
        /\ alpha = F_One
        /\ \A w \in 1..monitors : queueDraws[w] = 0 /\ needsDraw[w] # "queued"
        /\ (startFadeRuns >= 1 => quitCalled)

C2_Witness ==
    /\ fade = Fin(0)
    /\ startFadeRuns = 1
    /\ pc = "exited"

\* C3: once activated there is exactly one overlay per display, anchored to all
\* four edges of its own display, and all the overlays painted since the last
\* tick were painted with the same alpha, the shared one.
C3_OnePerDisplaySharedAlpha ==
    pc # "constructed" =>
        /\ Len(windows) = monitors
        /\ \A i \in 1..monitors :
              windows[i].monitor = i /\ windows[i].anchors = Edges
        /\ \A v, w \in 1..monitors :
              (drawn[v] # <<>> /\ drawn[w] # <<>>) =>
                  (drawn[v][1].a = drawn[w][1].a /\ drawn[v][1].a = alpha)

C3_Witness ==
    /\ monitors >= 2
    /\ ticks >= 1
    /\ \A w \in 1..monitors : drawn[w] # <<>>
    /\ alpha # F_One

\* C4: whatever the width, hold and fade values, an activated program runs to
\* completion: while it runs, a timer is armed or quit() was called, so the
\* event loop always has the step left that leads to DONE, and it exits with
\* status 0.
C4_RunsToCompletion ==
    /\ pc = "running" => (holdTimer \/ tickTimer \/ quitCalled)
    /\ pc = "exited" => (quitCalled /\ exitCode = 0)

\* C5: an argument that is no named colour and whose text after the leading
\* '#' has the wrong length or holds a non-hex character resolves to red,
\* without an error.
C5_FallbackOnParseFailure ==
    pc = "parsed" =>
        LET hexstr == LStripHash(name)
        IN  (/\ Lower(name) \notin DOMAIN NAMED_COLORS
             /\ \/ Len(hexstr) # HexLen
                \/ \E i \in 1..Len(hexstr) : ~IsHexDigit(hexstr[i]))
            => result = [raised |-> FALSE, color |-> Red]

\* C6: parse_color is total: it never raises, and returns a triple whose three
\* components each lie in [0, 1].
C6_ColorTotalInRange ==
    pc = "parsed" =>
        /\ ~result.raised
        /\ Len(result.color) = 3
        /\ \A i \in 1..3 :
              /\ result.color[i].den > 0
              /\ 0 <= result.color[i].num
              /\ result.color[i].num <= result.color[i].den

C6_Witness ==
    /\ pc = "parsed"
    /\ name = <<"-", "0", "0", "0", "0", "f">>
    /\ result.color # Red

\* C7: when 2B < min(W, H) the four fills cover exactly the frame of thickness
\* B: every cell within B of an edge is painted and no cell of the interior
\* (B, B)-(W-B, H-B) is.
C7_ExactFrame ==
    (pc = "drawn" /\ 2 * border_width < Min(area.width, area.height)) =>
        \A c \in AreaCells(area.width, area.height) :
            c \in painted <=>
                \/ c[1] < border_width
                \/ c[1] >= area.width - border_width
                \/ c[2] < border_width
                \/ c[2] >= area.height - border_width

C7_Witness ==
    /\ pc = "drawn"
    /\ border_width = 2
    /\ area = [width |-> 6, height |-> 5]
    /\ Cardinality(painted) = 28

\* C8, as stated: the step count is max(1, round(fade_seconds * 1000 / 16)) and
\* the decrement is alpha / steps, computed once.
C8_StepCountRounds ==
    (FadePositive /\ startFadeRuns >= 1) =>
        /\ steps = Max(1, RoundHalfEven(fade.ms, interval_ms))
        /\ alpha_step = FDiv(F_One, steps)

\* C8, amended: the step count is max(1, int(fade_seconds * 1000 / 16)), the
\* quotient truncated and not rounded, and the decrement is alpha / steps for
\* the alpha of that moment (1.0), computed once and the same at every tick.
C8_StepCountTruncates ==
    /\ (FadePositive /\ startFadeRuns >= 1) =>
          /\ steps >= 1
          /\ \/ steps = 1 /\ fade.ms < 2 * interval_ms
             \/ steps * interval_ms <= fade.ms /\ fade.ms < (steps + 1) * interval_ms
          /\ alpha_step = FDiv(F_One, steps)
    /\ startFadeRuns = 0 => (steps = 0 /\ alpha_step = NoAttr /\ alpha = F_One)

C8_Witness ==
    /\ fade = Fin(24)
    /\ steps = 1
    /\ ticks = 1
    /\ quitCalled

\* C9: the phase only moves HOLD -> FADING -> DONE (or HOLD -> DONE): the hold
\* callback runs once and never again, the phase never goes back, nothing ticks
\* or asks for a repaint after quit, and during HOLD alpha is 1.0 with no
\* repaint requested.
C9_PhaseInvariant ==
    /\ startFadeRuns <= 1
    /\ Phase = "HOLD" =>
          /\ alpha = F_One
          /\ ticks = 0
          /\ ~tickTimer
          /\ \A w \in 1..monitors : queueDraws[w] = 0 /\ needsDraw[w] # "queued"
    /\ Phase # "HOLD" => (startFadeRuns = 1 /\ ~holdTimer)
    /\ Phase = "DONE" => ~tickTimer

C9_PhaseStep ==
    /\ PhaseRank(Phase') >= PhaseRank(Phase)
    /\ (Phase = "HOLD" /\ Phase' # "HOLD") => startFadeRuns' = 1
    /\ Phase = "DONE" =>
          /\ ticks' = ticks
          /\ alpha' = alpha
          /\ startFadeRuns' = startFadeRuns
          /\ queueDraws' = queueDraws
          /\ drawn' = drawn
          /\ \A w \in 1..monitors : needsDraw'[w] = "queued" => needsDraw[w] = "queued"

C10_RepaintAlpha ==
    \A w \in 1..monitors :
        /\ (needsDraw[w] = "queued" /\ ~quitCalled) =>
              (FGtZero(alpha) /\ FLtOne(alpha))
        /\ (drawn[w] # <<>> /\ drawn[w][1].cause = "queued") =>
              (FGtZero(drawn[w][1].a) /\ FLtOne(drawn[w][1].a))

C10_TickStep ==
    /\ alpha' # alpha => ticks' = ticks + 1
    /\ ticks' = ticks + 1 =>
          /\ alpha' = FSub(alpha, alpha_step)
          /\ ~FLeq(alpha, alpha')
          /\ IF FLeqZero(alpha')
             THEN /\ quitCalled'
                  /\ ~tickTimer'
                  /\ queueDraws' = queueDraws
                  /\ needsDraw' = needsDraw
             ELSE /\ ~quitCalled'
                  /\ tickTimer'
                  /\ FGtZero(alpha') /\ FLtOne(alpha')
                  /\ \A w \in 1..monitors :
                        queueDraws'[w] = queueDraws[w] + 1 /\ needsDraw'[w] = "queued"

C10_TickDecrementsThenBranches == [](C10_RepaintAlpha) /\ [][C10_TickStep]_vars

C10_Witness ==
    /\ ticks >= 2
    /\ ~quitCalled
    /\ tickTimer
    /\ drawn[1] # <<>>
    /\ drawn[1][1].cause = "queued"
====
